---- MODULE Spec2Model ----
(***************************************************************************)
(* reworkit: the collector (src/src/main.rs) that receives build reports   *)
(* over HTTP, writes the log blob in a detached task and upserts one row   *)
(* per (name, arch) into the build_result table, and its query endpoint;   *)
(* the worker (src/worker/src/main.rs) that builds the packages of a tree  *)
(* in cycles and submits each result.                                      *)
(***************************************************************************)
EXTENDS Naturals, FiniteSets, Sequences, Bags, TLC

\* Number of HTTP requests the collector receives in one run; each may
\* overlap with every other one.
MaxReq == 2

\* Option::None
None == "-"

\* AppState.secret (REWORKIT_SECRET) and the values of the SECRET header.
Secret == "s3cret"
Headers == {None, Secret, "wrong"}

\* Values of the multipart text fields.  The package and arch values are
\* free text; one of each contains the '-' that the filename also uses.
PkgNames == {"gcc", "gcc-cross"}
ArchNames == {"amd64", "cross-amd64"}
SuccessTexts == {"true", "false"}

StatusOk == 200
StatusInternalServerError == 500

\* ---------------------------------------------------------------------------
\* Pure parts of the handlers

\* AnyhowError::into_response: every error becomes 500 with the message.
IntoResponse(msg) ==
    [status |-> StatusInternalServerError, msg |-> msg, body |-> EmptyBag]

\* Ok(()) of push_log: 200, empty body.
OkEmpty == [status |-> StatusOk, msg |-> "", body |-> EmptyBag]

\* Ok(Json(packages)) of get_package_result.
OkJson(packages) == [status |-> StatusOk, msg |-> "", body |-> packages]

NoResp == [status |-> 0, msg |-> None, body |-> EmptyBag]

\* Faulty variant: a missing header let through (unwrap_or(false)).
UnauthorizedUnlessMissing(h) == IF h = None THEN FALSE ELSE h # Secret

\* header.get("SECRET").and_then(to_str).map(|x| x != secret).unwrap_or(true)
Unauthorized(h) == IF h = None THEN TRUE ELSE h # Secret

\* Faulty variant: the success field defaulted instead of required.
MissingFieldButSuccess(pkgname, arch, success) ==
    IF pkgname = None THEN "Missing package field"
    ELSE IF arch = None THEN "Missing arch field"
    ELSE None

\* pkgname.context(..)?; arch.context(..)?; success.context(..)?
\* The message of the first missing field, or None when all are present.
MissingField(pkgname, arch, success) ==
    IF pkgname = None THEN "Missing package field"
    ELSE IF arch = None THEN "Missing arch field"
    ELSE IF success = None THEN "Missing success field"
    ELSE None

\* let success = if success == "true" { true } else { false };
ParseSuccess(s) == s = "true"

\* format!("{pkgname}-{arch}.log")
Filename(pkgname, arch) == pkgname \o "-" \o arch \o ".log"

FileNames == {Filename(p, a) : p \in PkgNames, a \in ArchNames}

\* let pkg = Package { name, arch, success, log: filename }
MkPackage(pkgname, arch, success) ==
    [name |-> pkgname, arch |-> arch, success |-> ParseSuccess(success),
     log |-> Filename(pkgname, arch)]

\* The rows of a table that conflict with pkg on the unique key (name, arch).
Conflicts(table, pkg) ==
    {row \in BagToSet(table) : row.name = pkg.name /\ row.arch = pkg.arch}

\* Faulty variants of the upsert statement.
\* A plain INSERT, on a table without the unique key.
UpsertInsertOnly(table, pkg) == table (+) SetToBag({pkg})

\* ON CONFLICT (name, arch) DO NOTHING.
UpsertDoNothing(table, pkg) ==
    IF Conflicts(table, pkg) = {} THEN table (+) SetToBag({pkg}) ELSE table

\* ON CONFLICT (name): the conflict decided by the package name alone.
UpsertByName(table, pkg) ==
    LET New(row) == IF row.name = pkg.name
                    THEN [row EXCEPT !.success = pkg.success, !.log = pkg.log]
                    ELSE row
    IN  IF \A row \in BagToSet(table) : row.name # pkg.name
        THEN table (+) SetToBag({pkg})
        ELSE SetToBag({New(row) : row \in BagToSet(table)})

\* The package's rows replaced wholesale by the submitted one.
UpsertReplacePackage(table, pkg) ==
    SetToBag({row \in BagToSet(table) : row.name # pkg.name} \cup {pkg})

\* INSERT INTO build_result VALUES ($1, $2, $3, $4)
\* ON CONFLICT (name, arch) DO UPDATE SET success=$3, log=$4
Upsert(table, pkg) ==
    LET hit == Conflicts(table, pkg)
        New(row) == IF row \in hit
                    THEN [row EXCEPT !.success = pkg.success, !.log = pkg.log]
                    ELSE row
        rows == {New(row) : row \in BagToSet(table)}
        Copies(n) == BagCardinality(
            [row \in {x \in BagToSet(table) : New(x) = n} |-> table[row]])
    IN  IF hit = {} THEN table (+) SetToBag({pkg})
        ELSE [n \in rows |-> Copies(n)]

\* SELECT name, arch, success, log FROM build_result WHERE name = $1
Select(table, name) ==
    [row \in {x \in BagToSet(table) : x.name = name} |-> table[row]]

\* .fetch_one(): the first row, or Error::RowNotFound when the statement
\* returned no row.
FetchOne(returned) ==
    IF returned = <<>> THEN "RowNotFound" ELSE None

\* The rows the upsert statement returns: it has no RETURNING clause.
UpsertReturns == <<>>

\* The tail of push_log: run the statement, fetch_one()?, Ok(()).
PushLogResult(dbOk) ==
    IF ~dbOk THEN IntoResponse("store failure")
    ELSE IF FetchOne(UpsertReturns) # None
         THEN IntoResponse(FetchOne(UpsertReturns))
         ELSE OkEmpty

\* Faulty variant: the write error turned into the request's response.
OnWriteLogErrorFails(response) ==
    [status |-> StatusInternalServerError, msg |-> "Error writing log",
     body |-> EmptyBag]

\* if let Err(e) = write_log(..).await { error!(..) }: the detached task
\* only logs the error; the response of its request stays what it is.
OnWriteLogError(response) == response

\* Faulty variant: fetch_one-like, an empty result is an error.
GetPackageResultOrNotFound(table, name, dbOk) ==
    IF ~dbOk THEN IntoResponse("store failure")
    ELSE IF Select(table, name) = EmptyBag THEN IntoResponse("RowNotFound")
    ELSE OkJson(Select(table, name))

\* get_package_result: fetch_all()?, Ok(Json(packages)).
GetPackageResult(table, name, dbOk) ==
    IF ~dbOk THEN IntoResponse("store failure")
    ELSE OkJson(Select(table, name))

\* ---------------------------------------------------------------------------
\* Pure parts of the worker

\* for i in 1..=3
MaxAttempts == 3
\* tokio::time::sleep(Duration::from_secs(10)) after a failed submission
RetryDelaySecs == 10

\* Paths are sequences of segments and a segment is a sequence of
\* characters, so that the text of a path can be searched.
SegT == <<"T">>
SegW == <<"w">>
SegGitW == <<".", "g", "i", "t", "w">>
SegA == <<"a">>
SegP == <<"p">>
SegR == <<"r">>
SegQ == <<"q">>
SegS == <<"s">>
SegGit == <<".", "g", "i", "t">>
SegGitHub == <<".", "g", "i", "t", "h">>
SegGroups == <<"g", "r", "o", "u", "p", "s">>
SegAssets == <<"a", "s", "s", "e", "t", "s">>
SlashDotGit == <<"/", ".", "g", "i", "t">>

\* The workspace directories the worker may be started in: /w and /.gitw.
Workspaces == {<<SegW>>, <<SegGitW>>}

\* The entries a synchronized tree may hold, by their path below the tree
\* root: a/p and a/r (package directories), a/q (a file), .git/s,
\* groups/s, assets/s, a/.gith (directories), and a/p/s (three levels deep).
TreeEntries ==
    { [path |-> <<SegA, SegP>>, dir |-> TRUE],
      [path |-> <<SegA, SegR>>, dir |-> TRUE],
      [path |-> <<SegA, SegQ>>, dir |-> FALSE],
      [path |-> <<SegGit, SegS>>, dir |-> TRUE],
      [path |-> <<SegGroups, SegS>>, dir |-> TRUE],
      [path |-> <<SegAssets, SegS>>, dir |-> TRUE],
      [path |-> <<SegA, SegGitHub>>, dir |-> TRUE],
      [path |-> <<SegA, SegP, SegS>>, dir |-> TRUE] }

Trees == SUBSET TreeEntries

\* The trees a git pull of the worker's cycles may leave: any of the
\* entries below a/.
PulledTrees == SUBSET {e \in TreeEntries : Len(e.path) = 2 /\ e.path[1] = SegA}

\* workspace.join("TREE")
TreeDir(workspace) == Append(workspace, SegT)

\* path.to_string_lossy() of an absolute path: "/seg/seg/..."
RECURSIVE PathText(_)
PathText(path) ==
    IF path = <<>> THEN <<>>
    ELSE <<"/">> \o Head(path) \o PathText(Tail(path))

\* str::contains
Contains(text, pat) ==
    \E i \in 1..Len(text) :
        i + Len(pat) - 1 <= Len(text)
            /\ SubSeq(text, i, i + Len(pat) - 1) = pat

\* Path::starts_with: whole components.
StartsWith(path, base) ==
    Len(base) <= Len(path) /\ SubSeq(path, 1, Len(base)) = base

\* The filter of list_packages: the entries skipped by `continue`.
Skipped(treeDir, path) ==
    \/ Contains(PathText(path), SlashDotGit)
    \/ StartsWith(path, Append(treeDir, SegGroups))
    \/ StartsWith(path, Append(treeDir, SegAssets))

\* WalkDir::new(tree_dir).min_depth(2).max_depth(2), then the filter and
\* file_type().is_dir(): the entries whose file names are pushed.
ListedEntries(treeDir, tree) ==
    {e \in tree : /\ Len(e.path) = 2
                  /\ ~Skipped(treeDir, treeDir \o e.path)
                  /\ e.dir}

\* The orders in which WalkDir may yield a set of entries.
Orders(S) ==
    {f \in [1..Cardinality(S) -> S] : \A i, j \in DOMAIN f : f[i] = f[j] => i = j}

\* entry.file_name()
FileName(e) == e.path[Len(e.path)]

\* ensure!(git_pull.status.success(), ..): the sync step went through.
GitPullOk(outcome) == outcome = "success"

\* ensure!(ciel_update.status.success(), ..)
UpdateOsOkAlways(outcome) == TRUE

UpdateOsOk(outcome) == outcome = "success"

\* .output().await? of ciel build: an error only when the tool cannot be run.
BuildRan(outcome) == outcome # "spawn_error"

\* ciel_build.status.success()
BuildSuccess(outcome) == outcome = "success"

\* The worker's push_log: send().await? and Ok(()); the response status
\* is not looked at.
PushResult(outcome) == IF outcome = "transport_error" THEN "Err" ELSE "Ok"

\* match push_log(..).await { Ok(_) => break 'a, Err(e) => { .. sleep } }
BreaksNever(result) == FALSE

Breaks(result) == result = "Ok"

\* main: if let Err(e) = work(..).await { eprintln!(..) }, then the sleep.
AfterWorkPropagates(result) == IF result = "Err" THEN "exit" ELSE "sleep"

AfterWork(result) == "sleep"

\* ---------------------------------------------------------------------------
\* Pure parts of the document store (src/src/db.rs)

\* The value of a key that was never set (Nil).
Nil == <<>>

\* Package { name, results }
NewPackage(name) == [name |-> name, results |-> <<>>]

\* BuildResult { arch, success, log }
NewBuildResult(arch, success, log) ==
    [arch |-> arch, success |-> success, log |-> log]

\* serde_json::to_string(v): the fields in declaration order.
ToJson(v) ==
    <<v.name, [i \in DOMAIN v.results |->
                  <<v.results[i].arch, v.results[i].success, v.results[i].log>>]>>

\* serde_json::from_str(&s)
FromJson(s) ==
    [name |-> s[1],
     results |-> [i \in DOMAIN s[2] |->
                     NewBuildResult(s[2][i][1], s[2][i][2], s[2][i][3])]]

\* Db::get: Err when the key holds no string, else the parsed Package.
DbGet(store, pkg) ==
    IF store[pkg] = Nil
    THEN [ok |-> FALSE, package |-> NewPackage(None)]
    ELSE [ok |-> TRUE, package |-> FromJson(store[pkg])]

\* Db::set: SET reworkit:{pkg} to the serialized Package.
DbSetNx(store, pkg, v) ==
    IF store[pkg] = Nil THEN [store EXCEPT ![pkg] = ToJson(v)] ELSE store

DbSet(store, pkg, v) == [store EXCEPT ![pkg] = ToJson(v)]

\* The merge of one result into a fetched Package: the entry of the same
\* arch is replaced, a new arch is added.
MergeResult(package, result) ==
    IF \E i \in DOMAIN package.results : package.results[i].arch = result.arch
    THEN [package EXCEPT !.results =
             [i \in DOMAIN package.results |->
                 IF package.results[i].arch = result.arch
                 THEN result ELSE package.results[i]]]
    ELSE [package EXCEPT !.results = Append(package.results, result)]

\* The single-writer lock can be taken when nobody holds it.
CanLock(held) == ~held

\* ---------------------------------------------------------------------------
\* State

VARIABLES
    handlers, \* the requests received so far, a bag of handler records
    db,       \* the build_result table, a bag of rows
    files,    \* log_dir: filename -> "absent", "partial", "complete"
    last,     \* per (name, arch): the form of the upsert applied last, if any
    wpc,      \* worker: "start", "sync", "list", "update", "build",
              \*         "compress", "submit", "retry_sleep", "sleep"
    treeDir,  \* worker: tree_dir, <<>> before the arguments are parsed
    tree,     \* worker: the entries of the tree on disk
    listed,   \* worker: what list_packages returned in this cycle
    pkgs,     \* worker: the packages the for loop has not reached yet
    cur,      \* worker: the package in hand, its build outcome, the attempt
    trace,    \* worker: the steps of the current cycle, in order
    dtasks,   \* document store: the upserts under way, a bag of task records
    dstore,   \* document store: package name -> the string under its key
    dlock     \* document store: TRUE while the single-writer lock is held

cvars == <<handlers, db, files, last>>
wvars == <<wpc, treeDir, tree, listed, pkgs, cur, trace>>
dvars == <<dtasks, dstore, dlock>>
vars == <<handlers, db, files, last, wpc, treeDir, tree, listed, pkgs, cur,
          trace, dtasks, dstore, dlock>>

Keys == PkgNames \X ArchNames

\* A handler record holds what one request's handler has read and done:
\*   kind     "push" or "get"
\*   pc       "parse", "upsert" or "done"
\*   header   the SECRET header (push)
\*   name     the name query parameter (get)
\*   package, arch, success   the form fields read by the multipart loop
\*   resp     the response sent, NoResp before
\*   blob     the detached write_log task: "none", "spawned", "created",
\*            "written", "failed"
\*   applied  whether the database executed the upsert
NewHandler(kind) ==
    [kind |-> kind, pc |-> "done", header |-> None, name |-> None,
     package |-> None, arch |-> None, success |-> None,
     resp |-> NoResp, blob |-> "none", applied |-> FALSE]

Running == BagToSet(handlers)

Add(h) == handlers (+) SetToBag({h})
Replace(h, n) == (handlers (-) SetToBag({h})) (+) SetToBag({n})

NoCur == [pkg |-> <<>>, outcome |-> None, i |-> 0]

Init ==
    /\ handlers = EmptyBag
    /\ db = EmptyBag
    /\ files = [f \in FileNames |-> "absent"]
    /\ last = [k \in Keys |-> {}]
    /\ wpc = "start"
    /\ treeDir = <<>>
    /\ tree = {}
    /\ listed = <<>>
    /\ pkgs = <<>>
    /\ cur = NoCur
    /\ trace = <<>>
    /\ dtasks = EmptyBag
    /\ dstore = [p \in PkgNames |-> Nil]
    /\ dlock = FALSE

\* POST /push_log arrives; the handler checks the SECRET header first.
ReceivePush(hdr) ==
    /\ BagCardinality(handlers) < MaxReq
    /\ handlers' = Add(
          IF Unauthorized(hdr)
          THEN [NewHandler("push") EXCEPT !.header = hdr, !.pc = "done",
                    !.resp = IntoResponse("Invalid secret token")]
          ELSE [NewHandler("push") EXCEPT !.header = hdr, !.pc = "parse"])
    /\ UNCHANGED <<db, files, last>>
    /\ UNCHANGED <<wvars, dvars>>

\* The multipart loop has read every field; the required ones are checked
\* and the blob write is spawned.
ParseForm(h, p, a, s) ==
    /\ h.pc = "parse"
    /\ LET read == [h EXCEPT !.package = p, !.arch = a, !.success = s]
       IN  handlers' = Replace(h,
              IF MissingField(p, a, s) # None
              THEN [read EXCEPT !.pc = "done",
                        !.resp = IntoResponse(MissingField(p, a, s))]
              ELSE [read EXCEPT !.pc = "upsert", !.blob = "spawned"])
    /\ UNCHANGED <<db, files, last>>
    /\ UNCHANGED <<wvars, dvars>>

\* The database executes the upsert statement (or fails), and the handler
\* answers.
ExecUpsert(h, dbOk) ==
    /\ h.pc = "upsert"
    /\ LET pkg == MkPackage(h.package, h.arch, h.success)
       IN  IF dbOk
           THEN /\ db' = Upsert(db, pkg)
                /\ last' = [last EXCEPT ![<<pkg.name, pkg.arch>>] =
                              {<<h.package, h.arch, h.success>>}]
           ELSE UNCHANGED <<db, last>>
    /\ handlers' = Replace(h, [h EXCEPT !.pc = "done", !.applied = dbOk,
                                  !.resp = PushLogResult(dbOk)])
    /\ UNCHANGED files
    /\ UNCHANGED <<wvars, dvars>>

\* write_log: create_dir_all and File::create, which truncates the file.
WriteLogCreate(h, ioOk) ==
    /\ h.blob = "spawned"
    /\ IF ioOk
       THEN /\ files' = [files EXCEPT ![Filename(h.package, h.arch)] = "partial"]
            /\ handlers' = Replace(h, [h EXCEPT !.blob = "created"])
       ELSE /\ handlers' = Replace(h, [h EXCEPT !.blob = "failed",
                                          !.resp = OnWriteLogError(h.resp)])
            /\ UNCHANGED files
    /\ UNCHANGED <<db, last>>
    /\ UNCHANGED <<wvars, dvars>>

\* write_log: io::copy from the gzip decoder into the file.  The copy ends
\* well when log_content decodes as a gzip stream and every write succeeds.
WriteLogCopy(h, copyOk) ==
    /\ h.blob = "created"
    /\ IF copyOk
       THEN /\ files' = [files EXCEPT ![Filename(h.package, h.arch)] = "complete"]
            /\ handlers' = Replace(h, [h EXCEPT !.blob = "written"])
       ELSE /\ handlers' = Replace(h, [h EXCEPT !.blob = "failed",
                                          !.resp = OnWriteLogError(h.resp)])
            /\ UNCHANGED files
    /\ UNCHANGED <<db, last>>
    /\ UNCHANGED <<wvars, dvars>>

\* GET /get?name=...
Get(name, dbOk) ==
    /\ BagCardinality(handlers) < MaxReq
    /\ handlers' = Add([NewHandler("get") EXCEPT !.name = name,
                           !.resp = GetPackageResult(db, name, dbOk)])
    /\ UNCHANGED <<db, files, last>>
    /\ UNCHANGED <<wvars, dvars>>

Next ==
    \/ \E hdr \in Headers : ReceivePush(hdr)
    \/ \E name \in PkgNames, dbOk \in BOOLEAN : Get(name, dbOk)
    \/ \E h \in Running, p \in PkgNames \cup {None}, a \in ArchNames \cup {None},
          s \in SuccessTexts \cup {None} : ParseForm(h, p, a, s)
    \/ \E h \in Running, dbOk \in BOOLEAN : ExecUpsert(h, dbOk)
    \/ \E h \in Running, ioOk \in BOOLEAN : WriteLogCreate(h, ioOk)
    \/ \E h \in Running, copyOk \in BOOLEAN : WriteLogCopy(h, copyOk)

Spec == Init /\ [][Next]_vars

\* ---------------------------------------------------------------------------
\* The worker: main and work

Outcomes == {"success", "failure", "spawn_error"}
PushOutcomes == {"transport_error", "200", "500"}

\* One step of the cycle as the trace records it.
Ev(ev, pkg, i, out, flag, secs) ==
    [ev |-> ev, pkg |-> pkg, i |-> i, out |-> out, flag |-> flag, secs |-> secs]

\* The end of one iteration of `for pkg in pkgs`: the next package, or
\* the end of work with Ok(()).
NextPkg == IF pkgs = <<>> THEN AfterWork("Ok") ELSE "build"

\* Args::parse() and tree_dir = workspace.join("TREE")
ParseArgs(workspace) ==
    /\ wpc = "start"
    /\ treeDir' = TreeDir(workspace)
    /\ wpc' = "sync"
    /\ UNCHANGED <<tree, listed, pkgs, cur, trace>>
    /\ UNCHANGED <<cvars, dvars>>

\* git pull in the tree; a new cycle begins here.
GitPull(outcome, newTree) ==
    /\ wpc = "sync"
    /\ trace' = <<Ev("sync", <<>>, 0, outcome, FALSE, 0)>>
    /\ UNCHANGED <<listed, pkgs, cur>>
    /\ IF GitPullOk(outcome)
       THEN tree' = newTree /\ wpc' = "list"
       ELSE tree' = tree /\ wpc' = AfterWork("Err")
    /\ UNCHANGED treeDir
    /\ UNCHANGED <<cvars, dvars>>

\* spawn_blocking(list_packages)
List(order) ==
    /\ wpc = "list"
    /\ order \in Orders(ListedEntries(treeDir, tree))
    /\ listed' = [i \in DOMAIN order |-> FileName(order[i])]
    /\ pkgs' = listed'
    /\ trace' = Append(trace, Ev("list", <<>>, 0, "success", FALSE, 0))
    /\ wpc' = "update"
    /\ UNCHANGED <<treeDir, tree, cur>>
    /\ UNCHANGED <<cvars, dvars>>

\* ciel update-os
UpdateOs(outcome) ==
    /\ wpc = "update"
    /\ trace' = Append(trace, Ev("update", <<>>, 0, outcome, FALSE, 0))
    /\ wpc' = IF UpdateOsOk(outcome) THEN NextPkg ELSE AfterWork("Err")
    /\ UNCHANGED <<treeDir, tree, listed, pkgs, cur>>
    /\ UNCHANGED <<cvars, dvars>>

\* ciel build -i <name> <pkg> for the next package of the loop
Build(outcome) ==
    /\ wpc = "build"
    /\ pkgs # <<>>
    /\ cur' = [pkg |-> Head(pkgs), outcome |-> outcome, i |-> 0]
    /\ pkgs' = Tail(pkgs)
    /\ trace' = Append(trace, Ev("build", Head(pkgs), 0, outcome, FALSE, 0))
    /\ wpc' = IF BuildRan(outcome) THEN "compress" ELSE AfterWork("Err")
    /\ UNCHANGED <<treeDir, tree, listed>>
    /\ UNCHANGED <<cvars, dvars>>

\* compression_log: Ok(log) goes on to the submission, Err is `continue`.
Compress(ok) ==
    /\ wpc = "compress"
    /\ trace' = Append(trace, Ev("compress", cur.pkg, 0,
                                 IF ok THEN "success" ELSE "failure", FALSE, 0))
    /\ IF ok
       THEN wpc' = "submit" /\ cur' = [cur EXCEPT !.i = 1]
       ELSE wpc' = NextPkg /\ cur' = cur
    /\ UNCHANGED <<treeDir, tree, listed, pkgs>>
    /\ UNCHANGED <<cvars, dvars>>

\* One attempt of the 'a loop: push_log with success = the build's status.
Push(outcome) ==
    /\ wpc = "submit"
    /\ trace' = Append(trace, Ev("push", cur.pkg, cur.i, outcome,
                                 BuildSuccess(cur.outcome), 0))
    /\ wpc' = IF Breaks(PushResult(outcome)) THEN NextPkg ELSE "retry_sleep"
    /\ UNCHANGED <<treeDir, tree, listed, pkgs, cur>>
    /\ UNCHANGED <<cvars, dvars>>

\* The sleep of the Err arm, then the next i of 1..=3 or the next package.
RetrySleep ==
    /\ wpc = "retry_sleep"
    /\ trace' = Append(trace, Ev("sleep", cur.pkg, cur.i, None, FALSE,
                                 RetryDelaySecs))
    /\ IF cur.i < MaxAttempts
       THEN wpc' = "submit" /\ cur' = [cur EXCEPT !.i = cur.i + 1]
       ELSE wpc' = NextPkg /\ cur' = cur
    /\ UNCHANGED <<treeDir, tree, listed, pkgs>>
    /\ UNCHANGED <<cvars, dvars>>

\* The sleep at the end of main's loop body, then the next work(): the
\* locals of the work() that returned are gone.
CycleSleep ==
    /\ wpc = "sleep"
    /\ wpc' = "sync"
    /\ trace' = <<>>
    /\ listed' = <<>>
    /\ pkgs' = <<>>
    /\ cur' = NoCur
    /\ UNCHANGED <<treeDir, tree>>
    /\ UNCHANGED <<cvars, dvars>>

WorkerNext ==
    \/ \E workspace \in Workspaces : ParseArgs(workspace)
    \/ \E outcome \in Outcomes, newTree \in PulledTrees :
          GitPull(outcome, newTree)
    \/ \E order \in Orders(ListedEntries(treeDir, tree)) : List(order)
    \/ \E outcome \in Outcomes : UpdateOs(outcome)
    \/ \E outcome \in Outcomes : Build(outcome)
    \/ \E ok \in BOOLEAN : Compress(ok)
    \/ \E outcome \in PushOutcomes : Push(outcome)
    \/ RetrySleep
    \/ CycleSleep

SpecWorker == Init /\ [][WorkerNext]_vars

\* Every external operation returns, so the worker always takes its next step.
SpecWorkerFair == SpecWorker /\ WF_vars(WorkerNext)

\* ---------------------------------------------------------------------------
\* The document-store backend: upserts as fetch-merge-store over Db::get
\* and Db::set, serialized by the single-writer lock

Tasks == BagToSet(dtasks)

ReplaceTask(t, n) == (dtasks (-) SetToBag({t})) (+) SetToBag({n})

\* An upsert of (pkg, arch, success) arrives and waits for the lock.
DocStart(pkg, arch, success) ==
    /\ BagCardinality(dtasks) < MaxReq
    /\ dtasks' = dtasks (+) SetToBag({[pc |-> "waiting", pkg |-> pkg,
                                       arch |-> arch, success |-> success,
                                       waited |-> dlock,
                                       fetched |-> NewPackage(None)]})
    /\ UNCHANGED <<dstore, dlock>>
    /\ UNCHANGED <<cvars, wvars>>

\* The task takes the lock.
DocLock(t) ==
    /\ t.pc = "waiting"
    /\ CanLock(dlock)
    /\ dlock' = TRUE
    /\ dtasks' = ReplaceTask(t, [t EXCEPT !.pc = "locked"])
    /\ UNCHANGED dstore
    /\ UNCHANGED <<cvars, wvars>>

\* Db::get; a key never set gives a new Package of that name.
DocGet(t) ==
    /\ t.pc = "locked"
    /\ LET got == DbGet(dstore, t.pkg)
       IN dtasks' = ReplaceTask(t, [t EXCEPT !.pc = "fetched",
                !.fetched = IF got.ok THEN got.package ELSE NewPackage(t.pkg)])
    /\ UNCHANGED <<dstore, dlock>>
    /\ UNCHANGED <<cvars, wvars>>

\* The merge and Db::set of the merged Package.
DocSet(t) ==
    /\ t.pc = "fetched"
    /\ dstore' = DbSet(dstore, t.pkg,
                       MergeResult(t.fetched,
                           NewBuildResult(t.arch, t.success,
                                          Filename(t.pkg, t.arch))))
    /\ dtasks' = ReplaceTask(t, [t EXCEPT !.pc = "stored"])
    /\ UNCHANGED dlock
    /\ UNCHANGED <<cvars, wvars>>

\* The task gives the lock back; the upsert is over.
DocUnlock(t) ==
    /\ t.pc = "stored"
    /\ dlock' = FALSE
    /\ dtasks' = ReplaceTask(t, [t EXCEPT !.pc = "done"])
    /\ UNCHANGED dstore
    /\ UNCHANGED <<cvars, wvars>>

DocNext ==
    \/ \E pkg \in PkgNames, arch \in ArchNames, success \in BOOLEAN :
          DocStart(pkg, arch, success)
    \/ \E t \in Tasks : DocLock(t)
    \/ \E t \in Tasks : DocGet(t)
    \/ \E t \in Tasks : DocSet(t)
    \/ \E t \in Tasks : DocUnlock(t)

SpecDoc == Init /\ [][DocNext]_vars

\* ---------------------------------------------------------------------------
\* list_packages alone, on every tree and tree_dir of the bounded universe

InitList ==
    /\ handlers = EmptyBag
    /\ db = EmptyBag
    /\ files = [f \in FileNames |-> "absent"]
    /\ last = [k \in Keys |-> {}]
    /\ wpc = "list"
    /\ treeDir \in {TreeDir(workspace) : workspace \in Workspaces}
    /\ tree \in Trees
    /\ listed = <<>>
    /\ pkgs = <<>>
    /\ cur = NoCur
    /\ trace = <<Ev("sync", <<>>, 0, "success", FALSE, 0)>>
    /\ dtasks = EmptyBag
    /\ dstore = [p \in PkgNames |-> Nil]
    /\ dlock = FALSE

ListNext == \E order \in Orders(ListedEntries(treeDir, tree)) : List(order)

SpecList == InitList /\ [][ListNext]_vars

\* ---------------------------------------------------------------------------
\* Properties

\* The rows of a table stored for one (name, arch) pair.
RecordsFor(table, name, arch) ==
    [row \in {x \in BagToSet(table) : x.name = name /\ x.arch = arch}
        |-> table[row]]

IsPush(h) == h.kind = "push"
IsGet(h) == h.kind = "get"
Form(h) == <<h.package, h.arch, h.success>>

\* The record a form submits, read off its fields.
Submitted(f) ==
    [name |-> f[1], arch |-> f[2], success |-> (f[3] = "true"),
     log |-> Filename(f[1], f[2])]

\* The handler that takes a step, before and after it.  A step that
\* receives a request has no handler before it.
StepFrom == BagToSet(handlers (-) handlers')
StepTo == BagToSet(handlers' (-) handlers)

\* Two handlers of the bag that are two requests.
TwoRequests(h1, h2) == h1 # h2 \/ CopiesIn(h1, handlers) >= 2

\* C1: in every reachable state the build_result table holds at most one
\* record for any (package name, arch) pair.
C1_AtMostOneRecordPerPair ==
    \A k \in Keys : BagCardinality(RecordsFor(db, k[1], k[2])) <= 1

\* Two submissions with different outcomes for one pair were both applied
\* and the pair has a single record.
C1_Witness ==
    \E h1, h2 \in Running :
        /\ h1.applied /\ h2.applied
        /\ h1.package = h2.package /\ h1.arch = h2.arch
        /\ h1.success # h2.success
        /\ BagCardinality(RecordsFor(db, h1.package, h1.arch)) = 1

\* C2: what get(name) returns is the merged view of all applied
\* submissions: exactly one record for every arch ever submitted for the
\* name, none for any other arch, and the record of (name, arch) carries
\* the success value and log filename of the submission applied last.
C2_MergedLastWriteWins ==
    \A name \in PkgNames :
        LET view == GetPackageResult(db, name, TRUE).body
        IN  /\ \A row \in BagToSet(view) : row.name = name
            /\ \A arch \in ArchNames :
                  RecordsFor(view, name, arch)
                      = SetToBag({Submitted(f) : f \in last[<<name, arch>>]})

\* A package with records of two archs, one succeeded and one failed.
C2_Witness ==
    \E name \in PkgNames : \E a1, a2 \in ArchNames :
        /\ a1 # a2
        /\ last[<<name, a1>>] = {<<name, a1, "true">>}
        /\ last[<<name, a2>>] = {<<name, a2, "false">>}
        /\ BagCardinality(GetPackageResult(db, name, TRUE).body) = 2

\* What a step that applies an upsert leaves alone.
C3_ApplyStep ==
    \A h \in StepFrom : \A n \in StepTo :
        (h.pc = "upsert" /\ n.applied) =>
            \A k \in Keys : k # <<h.package, h.arch>> =>
                RecordsFor(db', k[1], k[2]) = RecordsFor(db, k[1], k[2])

\* C3: the step that applies the upsert of a submission for (p, a) leaves
\* the records of every other (package, arch) pair as they were.
C3_UpsertFrame == [][C3_ApplyStep]_vars

\* A package holds the records of two archs with different outcomes, each
\* as its own request submitted it.
C3_Witness ==
    \E h1, h2 \in Running :
        /\ h1.applied /\ h2.applied
        /\ h1.package = h2.package /\ h1.arch # h2.arch
        /\ h1.success # h2.success
        /\ RecordsFor(db, h1.package, h1.arch)
              = SetToBag({Submitted(Form(h1))})
        /\ RecordsFor(db, h2.package, h2.arch)
              = SetToBag({Submitted(Form(h2))})

\* The stored record of an applied request, and what a get step observes.
C4_Stored ==
    \A h \in Running : h.applied =>
        LET k == <<h.package, h.arch>>
        IN  /\ \E w \in Running :
                  w.applied /\ last[k] = {Form(w)}
                      /\ w.package = h.package /\ w.arch = h.arch
            /\ RecordsFor(db, h.package, h.arch)
                  = SetToBag({Submitted(f) : f \in last[k]})

C4_GetObserves ==
    \A g \in StepTo : (IsGet(g) /\ g.resp.status = StatusOk) =>
        \A h \in Running : (h.applied /\ h.package = g.name) =>
            RecordsFor(g.resp.body, h.package, h.arch)
                = SetToBag({Submitted(f) : f \in last[<<h.package, h.arch>>]})

C5_ApplyStep ==
    \A h \in StepFrom : \A n \in StepTo :
        (h.pc = "upsert" /\ n.applied
            /\ RecordsFor(db, h.package, h.arch)
                  = SetToBag({Submitted(Form(h))}))
            => db' = db

\* C5: applying a submission that is already the stored record of its pair
\* (a duplicate delivery) leaves the table as it is.
C5_Idempotent == [][C5_ApplyStep]_vars

\* The same submission was applied twice and the table holds one record.
C5_Witness ==
    \E h1, h2 \in Running :
        /\ TwoRequests(h1, h2)
        /\ h1.applied /\ h2.applied
        /\ Form(h1) = Form(h2)
        /\ db = SetToBag({Submitted(Form(h1))})

\* The SECRET header of h is missing or differs from the configured secret.
BadSecret(h) == h.header = None \/ h.header # Secret

\* The form of h lacks the package, arch or success field.
LacksField(h) == h.package = None \/ h.arch = None \/ h.success = None

NoFieldRead(h) == h.package = None /\ h.arch = None /\ h.success = None

\* The state of a request with a bad secret, and the step receiving it.
C6_Rejected ==
    \A h \in Running : (IsPush(h) /\ BadSecret(h)) =>
        /\ h.pc = "done"
        /\ h.resp.status = StatusInternalServerError
        /\ h.resp.msg = "Invalid secret token"
        /\ NoFieldRead(h)
        /\ h.blob = "none"
        /\ ~h.applied

C6_ReceiveStep ==
    \A n \in StepTo : (StepFrom = {} /\ IsPush(n) /\ BadSecret(n)) =>
        UNCHANGED <<db, files, last>>

\* C6: a push_log request whose SECRET header is missing or wrong is
\* answered with the authorization error in the step that receives it, no
\* form field of it is ever read, no blob write is launched for it, its
\* upsert is never applied, and the receiving step leaves the table, the
\* log files and every other handler unchanged.
C6_UnauthorizedNoEffect == [](C6_Rejected) /\ [][C6_ReceiveStep]_vars

\* A request without the header and one with a wrong header were rejected.
C6_Witness ==
    \E h1, h2 \in Running :
        /\ IsPush(h1) /\ h1.header = None /\ h1.pc = "done"
        /\ IsPush(h2) /\ h2.header = "wrong" /\ h2.pc = "done"

\* The state of a request lacking a field, and the step rejecting it.
C7_Rejected ==
    \A h \in Running :
        (IsPush(h) /\ ~BadSecret(h) /\ h.pc # "parse" /\ LacksField(h)) =>
            /\ h.pc = "done"
            /\ h.resp.status = StatusInternalServerError
            /\ \/ h.resp.msg = "Missing package field" /\ h.package = None
               \/ h.resp.msg = "Missing arch field" /\ h.arch = None
               \/ h.resp.msg = "Missing success field" /\ h.success = None
            /\ h.blob = "none"
            /\ ~h.applied

C7_ParseStep ==
    \A h \in StepFrom : \A n \in StepTo :
        (h.pc = "parse" /\ LacksField(n)) => UNCHANGED <<db, files, last>>

\* C7: an authorized push_log request whose form lacks the package, arch
\* or success field is answered 500 with the message naming a missing
\* field; no blob write is launched for it, its upsert is never applied,
\* and the step that rejects it leaves the table and the log files
\* unchanged.
C7_MissingFieldNoEffect == [](C7_Rejected) /\ [][C7_ParseStep]_vars

\* An authorized request with package and arch but no success field was
\* rejected.
C7_Witness ==
    \E h \in Running :
        /\ IsPush(h) /\ ~BadSecret(h) /\ h.pc = "done"
        /\ h.package # None /\ h.arch # None /\ h.success = None
        /\ h.resp.msg = "Missing success field"

\* C8: a push_log request with the correct secret and all required fields
\* whose upsert was applied is answered 200 with an empty body, and a 500
\* answer means an authorization failure, a missing field or a store
\* failure.
C8_AppliedAnswersOk ==
    \A h \in Running : (IsPush(h) /\ h.pc = "done") =>
        /\ (~BadSecret(h) /\ ~LacksField(h) /\ h.applied) =>
               (h.resp.status = StatusOk /\ h.resp.body = EmptyBag)
        /\ h.resp.status = StatusInternalServerError =>
               (BadSecret(h) \/ LacksField(h) \/ ~h.applied)

\* A step of a write_log task, and two requests with the same inputs.
C9_BlobStep ==
    \A h \in StepFrom : \A n \in StepTo :
        (h.blob # "none" /\ n.blob # h.blob) =>
            /\ n.resp = h.resp /\ n.pc = h.pc /\ n.applied = h.applied
            /\ UNCHANGED <<db, last>>

C9_SameOutcome ==
    \A h1, h2 \in Running :
        (IsPush(h1) /\ IsPush(h2) /\ h1.pc = "done" /\ h2.pc = "done"
            /\ h1.header = h2.header /\ Form(h1) = Form(h2)
            /\ h1.applied = h2.applied) =>
            h1.resp = h2.resp

\* C9: no step of a detached write_log task, whether it ends well or
\* fails, changes the response or the progress of its request, the table
\* or what was applied; and two answered submissions that agree on header,
\* fields and store outcome got the same response, whatever the states of
\* their blob writes.
C9_BlobOutcomeIgnored == [](C9_SameOutcome) /\ [][C9_BlobStep]_vars

\* The same submission was applied twice; the blob write of one failed and
\* the blob write of the other has not started; the record is stored.
C9_Witness ==
    \E h1, h2 \in Running :
        /\ IsPush(h1) /\ IsPush(h2) /\ Form(h1) = Form(h2)
        /\ h1.pc = "done" /\ h2.pc = "done"
        /\ h1.applied /\ h2.applied
        /\ h1.blob = "failed" /\ h2.blob = "spawned"
        /\ h1.resp = h2.resp
        /\ db = SetToBag({Submitted(Form(h1))})

\* C10, as stated: a get answered 200 carries a record of the name, that
\* is, a get for a name without records is answered 500.
C10_AbsentNameIs500 ==
    \A g \in Running :
        (IsGet(g) /\ g.resp.status = StatusOk) => g.resp.body # EmptyBag

\* The step that answers a get.
C10_GetStep ==
    \A g \in StepTo : IsGet(g) =>
        \/ /\ g.resp.status = StatusInternalServerError
           /\ g.resp.msg = "store failure"
        \/ /\ g.resp.status = StatusOk
           /\ \A row \in BagToSet(g.resp.body) : row.name = g.name
           /\ \A arch \in ArchNames :
                 RecordsFor(g.resp.body, g.name, arch)
                     = RecordsFor(db, g.name, arch)

\* C10, amended: a get is answered either 500 with the store failure, or
\* 200 with exactly the records stored for the name at that moment, which
\* is the empty list when the name has no record.
C10_GetReturnsStoredSet == [][C10_GetStep]_vars

\* A get for a name without records was answered 200 with the empty list,
\* while the other name has a record.
C10_Witness ==
    \E g \in Running :
        /\ IsGet(g) /\ g.resp.status = StatusOk /\ g.resp.body = EmptyBag
        /\ db # EmptyBag

\* ---------------------------------------------------------------------------
\* Properties of the worker, over the trace of the current cycle

IsEv(k, ev) == k \in DOMAIN trace /\ trace[k].ev = ev

\* The attempt at position k failed: the worker's push_log returned Err.
PushFailed(k) == IsEv(k, "push") /\ trace[k].out = "transport_error"

\* The attempt at position k follows a failed attempt of the same package
\* and the retry delay.
RetryOf(k) ==
    /\ PushFailed(k - 2)
    /\ trace[k - 2].pkg = trace[k].pkg
    /\ trace[k - 2].i = trace[k].i - 1
    /\ IsEv(k - 1, "sleep")
    /\ trace[k - 1].pkg = trace[k].pkg
    /\ trace[k - 1].secs = RetryDelaySecs

\* Nothing but the build of another package follows position k.
OnlyBuildAfter(k) ==
    k < Len(trace) => IsEv(k + 1, "build") /\ trace[k + 1].pkg # trace[k].pkg

\* The cycle goes on after the last step of a package: the loop is at the
\* next package, or work() is over because no package is left.
CycleGoesOn == wpc = "build" \/ (wpc = "sleep" /\ pkgs = <<>>)

C12_FailureResponseRetried ==
    \A k \in DOMAIN trace :
        IsEv(k, "push") /\ trace[k].out = "500" =>
            IF k = Len(trace) THEN wpc = "retry_sleep" ELSE IsEv(k + 1, "sleep")

\* C13: a cycle runs sync, list, environment update and then the builds, in
\* that order; the environment is updated at most once, before any build;
\* when the sync or the update fails nothing is built and nothing submitted.
C13_CycleOrder ==
    /\ \A k \in DOMAIN trace :
           /\ IsEv(k, "sync") <=> k = 1
           /\ IsEv(k, "list") <=> k = 2
           /\ IsEv(k, "update") <=> k = 3
    /\ Len(trace) > 1 => trace[1].out = "success"
    /\ Len(trace) > 3 => trace[3].out = "success"

\* Packages were listed, the environment update failed and the cycle is
\* over with nothing built.
C13_Witness ==
    /\ wpc = "sleep"
    /\ listed # <<>>
    /\ Len(trace) = 3
    /\ trace[3].out = "failure"

\* C14: the worker never stops because of what a cycle did: every cycle,
\* completed or aborted, reaches the sleep at the end of the loop body, and
\* after the sleep a new cycle starts from the sync step.
C14_AlwaysNextCycle ==
    /\ [](wpc # "start" => <>(wpc = "sleep"))
    /\ [](wpc = "sleep" => <>(wpc = "sync"))

\* A cycle aborted by a failed sync is at the sleep.
C14_Witness ==
    /\ wpc = "sleep"
    /\ Len(trace) = 1
    /\ trace[1].out # "success"

\* C15: an error on one package never aborts the cycle: once the sync and
\* the environment update went through, every listed package has been
\* built when the cycle is over.
C15_EveryListedPackageBuilt ==
    wpc = "sleep" /\ Len(trace) >= 3 /\ trace[3].out = "success" =>
        \A n \in DOMAIN listed :
            \E k \in DOMAIN trace : IsEv(k, "build") /\ trace[k].pkg = listed[n]

\* The package whose last step is at position j is done: its submission
\* was accepted, or skipped because the compression failed, or gave up
\* after the third failed attempt.
PackageDone(j) ==
    \/ IsEv(j, "push") /\ trace[j].out = "200"
    \/ IsEv(j, "compress") /\ trace[j].out = "failure"
    \/ IsEv(j, "sleep") /\ trace[j].i = MaxAttempts

\* The submission at position k follows the completed build of its package
\* and carries that build's exit outcome.
CarriesBuildOutcome(k) ==
    \E j \in 1..(k - 1) :
        /\ IsEv(j, "build")
        /\ trace[j].pkg = trace[k].pkg
        /\ trace[j].out \in {"success", "failure"}
        /\ trace[k].flag = (trace[j].out = "success")
        /\ \A m \in (j + 1)..(k - 1) : ~IsEv(m, "build")

\* C16: builds are strictly sequential: a build starts only as the first of
\* the cycle or after the previous package is done (submission succeeded,
\* skipped or exhausted); every submission comes after its package's build
\* and carries that build's outcome as the success flag.
C16_SequentialBuilds ==
    \A k \in DOMAIN trace :
        /\ IsEv(k, "build") => IsEv(k - 1, "update") \/ PackageDone(k - 1)
        /\ IsEv(k, "push") => CarriesBuildOutcome(k)

\* ---------------------------------------------------------------------------
\* Properties of the document-store backend

\* The task is between its Db::get and the end of its Db::set.
InUpsert(t) == t.pc \in {"locked", "fetched", "stored"}

\* The record stored for the task's package holds a result of its arch.
Present(t) ==
    /\ dstore[t.pkg] # Nil
    /\ \E i \in DOMAIN FromJson(dstore[t.pkg]).results :
           FromJson(dstore[t.pkg]).results[i].arch = t.arch

Launched(h) == IsPush(h) /\ h.blob # "none"

\* C18: the blob writes of two requests for different (package, arch)
\* pairs never target the same file: their filenames differ.
C18_FilenamesDistinct ==
    \A h1, h2 \in Running :
        Launched(h1) /\ Launched(h2)
            /\ <<h1.package, h1.arch>> # <<h2.package, h2.arch>>
        => Filename(h1.package, h1.arch) # Filename(h2.package, h2.arch)

\* C20: a blob write that ended in failure leaves no partially written
\* blob visible under its filename: the file is absent or complete.
C20_FailedWriteLeavesNoPartial ==
    \A h \in Running :
        Launched(h) /\ h.blob = "failed"
        => files[Filename(h.package, h.arch)] \in {"absent", "complete"}

\* ---------------------------------------------------------------------------
\* Properties of list_packages

\* The path has a version-control metadata segment: a component named .git.
HasVcsSegment(path) == \E i \in DOMAIN path : path[i] = SegGit

\* What the listing is to return: the directories two levels below the
\* tree root, without those on a path with a .git segment and those under
\* the top-level groups and assets.
Expected(dir, entries) ==
    {e \in entries : /\ Len(e.path) = 2
                     /\ e.dir
                     /\ ~HasVcsSegment(dir \o e.path)
                     /\ e.path[1] \notin {SegGroups, SegAssets}}

\* C19: list_packages returns exactly the names of the directories two
\* levels below the tree root that are not on a path with a version-control
\* metadata segment and not under the top-level groups or assets.
C19_ListsExactly ==
    wpc = "update" =>
        {listed[i] : i \in DOMAIN listed}
            = {FileName(e) : e \in Expected(treeDir, tree)}


====
